---- MODULE Spec2Model ----
(***************************************************************************)
(* Model of Backend/src/main.py: the credential and token lifecycle of a   *)
(* FastAPI service backed by MongoDB (users collection), passlib's bcrypt  *)
(* context and python-jose's HS256 tokens.                                 *)
(*                                                                         *)
(* Strings whose characters the code looks at (user names, e-mail          *)
(* addresses, passwords, the text of a DuplicateKeyError) are tuples of     *)
(* one-character strings, so that "x in s", truncation and concatenation   *)
(* are computed on characters.  Time is counted in minutes.                *)
(***************************************************************************)
EXTENDS Integers, Sequences, FiniteSets, TLC

VARIABLES
    users,     \* users_collection: the documents, in insertion order
    indexes,   \* the fields of users_collection that carry a unique index
    serving,   \* the startup event has run and requests are served
    regs,      \* register_user: the locals of the request in each slot
    wire,      \* the access token the client was last given by /token
    gate,      \* get_current_user: the request waiting for get_user, if any
    now,       \* datetime.utcnow()
    posts,     \* db.posts: the documents, in insertion order (_id = position)
    response   \* what the step just taken returned to its caller

vars == <<users, indexes, serving, regs, wire, gate, now, posts, response>>

(***************************************************************************)
(* Bounds of the model.                                                    *)
(***************************************************************************)
\* The clock stops advancing here (minutes since the process was first started).
MaxClock == 31
\* Register requests that can be in flight at the same time.
MaxInFlight == 2
\* Documents db.posts can hold.
MaxPosts == 1

(***************************************************************************)
(* Strings.                                                                *)
(***************************************************************************)
JOHNDOE == <<"j","o","h","n","d","o","e">>
ALICE == <<"a","l","i","c","e">>
BOB == <<"b","o","b">>
JOHNDOE_EMAIL == <<"j","o","h","n","d","o","e","@","e","x","a","m","p","l","e",".","c","o","m">>
USERNAME_EMAIL == <<"u","s","e","r","n","a","m","e","@","e","x","a","m","p","l","e",".","c","o","m">>
BOB_EMAIL == <<"b","o","b","@","e","x","a","m","p","l","e",".","c","o","m">>
JOHN_DOE == <<"J","o","h","n"," ","D","o","e">>
SECRET == <<"s","e","c","r","e","t">>
WRONG == <<"w","r","o","n","g">>
\* The two literals register_user looks for in the text of a DuplicateKeyError.
USERNAME == <<"u","s","e","r","n","a","m","e">>
EMAIL == <<"e","m","a","i","l">>
\* The text of the server's E11000 error, up to the name of the violated index.
E11000 == <<"E","1","1","0","0","0"," ","d","u","p","l","i","c","a","t","e"," ","k","e","y"," ","e","r","r","o","r"," ","c","o","l","l","e","c","t","i","o","n",":"," ","o","a","u","t","h","_","d","b",".","u","s","e","r","s"," ","i","n","d","e","x",":"," ">>
INDEX_SUFFIX == <<"_","1">>
DUP_KEY == <<" ","d","u","p"," ","k","e","y",":"," ","{"," ">>
COLON == <<":"," ","\"">>
CLOSE == <<"\""," ","}">>

\* Python's "sub in s" on strings.
Contains(s, sub) ==
    \E i \in 0..(Len(s) - Len(sub)) : SubSeq(s, i + 1, i + Len(sub)) = sub

\* The characters of a field name ("username", "email").
FieldChars(field) == IF field = "username" THEN USERNAME ELSE EMAIL

\* None where a string is expected (a "sub" claim, a full name): no string of
\* characters equals it.  NoDetail, NoBody: the None of a detail and of a body.
None == <<"None">>
NoDetail == "None"
NoBody == [none |-> TRUE]

(***************************************************************************)
(* Configuration (main.py lines 19-23).                                    *)
(***************************************************************************)
SECRET_KEY == "your-secret-key-here"
ALGORITHM == "HS256"
ACCESS_TOKEN_EXPIRE_MINUTES == 30
\* timedelta(minutes=15), the default of create_access_token.
DEFAULT_EXPIRE_MINUTES == 15
\* bcrypt reads no more than this many bytes of a password.
BcryptMaxBytes == 72

\* Two passwords one byte longer than bcrypt reads, different in that byte.
LONG_X == [i \in 1..(BcryptMaxBytes + 1) |-> IF i <= BcryptMaxBytes THEN "a" ELSE "x"]
LONG_Y == [i \in 1..(BcryptMaxBytes + 1) |-> IF i <= BcryptMaxBytes THEN "a" ELSE "y"]

(***************************************************************************)
(* PasswordHasher: pwd_context = CryptContext(schemes=["bcrypt"]).         *)
(* A hash is the scheme, the salt drawn for it, and the digest of the salt  *)
(* and of the bytes of the password bcrypt reads.  The digest is an ideal   *)
(* one-way function: two digests are equal only for equal inputs.           *)
(***************************************************************************)
Salts == {"salt1", "salt2"}

Min(a, b) == IF a <= b THEN a ELSE b

BcryptInput(password) == SubSeq(password, 1, Min(Len(password), BcryptMaxBytes))

BcryptDigest(salt, password) == <<"bcrypt", salt, BcryptInput(password)>>

\* get_password_hash, with the salt passlib draws made explicit.
get_password_hash(password, salt) ==
    [scheme |-> "bcrypt", salt |-> salt, digest |-> BcryptDigest(salt, password)]

\* Mutant of verify_password: only the salt of the hash is compared.
verify_password_salt_only(plain_password, hashed_password) ==
    hashed_password.digest[2] = BcryptDigest(hashed_password.salt, plain_password)[2]

verify_password(plain_password, hashed_password) ==
    hashed_password.digest = BcryptDigest(hashed_password.salt, plain_password)

(***************************************************************************)
(* TokenCodec: jose.jwt with HS256.  A token is its header's algorithm, its *)
(* claims and its signature; the signature is an ideal MAC of the key and   *)
(* of the signed text (header and claims).                                  *)
(***************************************************************************)
\* timedelta(minutes=m), and the None of an absent expires_delta.
timedelta(m) == [minutes |-> m]
NoTtl == [none |-> TRUE]

Sign(key, alg, claims) == <<"hmac", key, alg, claims>>

\* jwt.encode(claims, key, algorithm)
jwt_encode(claims, key, alg) ==
    [alg |-> alg, claims |-> claims, sig |-> Sign(key, alg, claims)]

\* "if expires_delta:" is Python truthiness: None and timedelta(0) are false.
Truthy(expires_delta) == expires_delta # NoTtl /\ expires_delta # timedelta(0)

\* create_access_token(data, expires_delta) at clock time t.  data is the
\* dictionary of claims to sign: its "sub", None when it has none.
create_access_token(data, expires_delta, t) ==
    LET expire == IF Truthy(expires_delta)
                    THEN t + expires_delta.minutes
                    ELSE t + DEFAULT_EXPIRE_MINUTES
        to_encode == [sub |-> data.sub, exp |-> expire]
    IN  jwt_encode(to_encode, SECRET_KEY, ALGORITHM)

\* A string that is no three-part token.
Garbage == [malformed |-> TRUE]

\* jwt.decode(token, key, algorithms=[alg]) at clock time t: the claims, or
\* JWTError.  jose checks the structure, the header's algorithm, the signature
\* and then the exp claim, which it rejects when exp < now.
JWTError == [error |-> "JWTError"]

\* Mutants of jwt_decode: the signature is not checked; exp is not checked.
jwt_decode_unverified(token, key, alg, t) ==
    IF token = Garbage THEN JWTError
    ELSE IF token.alg # alg THEN JWTError
    ELSE IF token.claims.exp < t THEN JWTError
    ELSE token.claims

\* ... a leeway applied in the wrong direction.
jwt_decode_skewed(token, key, alg, t) ==
    IF token = Garbage THEN JWTError
    ELSE IF token.alg # alg THEN JWTError
    ELSE IF token.sig # Sign(key, token.alg, token.claims) THEN JWTError
    ELSE IF token.claims.exp < t + 2 THEN JWTError
    ELSE token.claims

jwt_decode_noexp(token, key, alg, t) ==
    IF token = Garbage THEN JWTError
    ELSE IF token.alg # alg THEN JWTError
    ELSE IF token.sig # Sign(key, token.alg, token.claims) THEN JWTError
    ELSE token.claims

jwt_decode(token, key, alg, t) ==
    IF token = Garbage THEN JWTError
    ELSE IF token.alg # alg THEN JWTError
    ELSE IF token.sig # Sign(key, token.alg, token.claims) THEN JWTError
    ELSE IF token.claims.exp < t THEN JWTError
    ELSE token.claims

(***************************************************************************)
(* CredentialStore: the users collection and its unique indexes.           *)
(***************************************************************************)
MinOf(S) == CHOOSE x \in S : \A y \in S : x <= y

NoDocument == [none |-> TRUE]

\* users_collection.find_one({"username": username}): the first match or None.
find_one(coll, username) ==
    LET hits == {k \in 1..Len(coll) : coll[k].username = username}
    IN  IF hits = {} THEN NoDocument ELSE coll[MinOf(hits)]

\* str(e) of the DuplicateKeyError for the unique index on field: the server's
\* message names the violated index and the duplicate key's value, e.g.
\*   E11000 duplicate key error collection: oauth_db.users index: email_1
\*   dup key: { email: "a@b.c" }
DuplicateKeyError(field, value) ==
    E11000 \o FieldChars(field) \o INDEX_SUFFIX \o DUP_KEY
           \o FieldChars(field) \o COLON \o value \o CLOSE

\* The unique indexes (positions in idx) that doc would violate in coll.
Violated(coll, idx, doc) ==
    {i \in 1..Len(idx) : \E k \in 1..Len(coll) : coll[k][idx[i]] = doc[idx[i]]}

\* Mutant of insert_one: a document whose key is taken replaces its holder.
insert_one_upsert(coll, idx, doc) ==
    LET bad == Violated(coll, idx, doc)
        held == {k \in 1..Len(coll) : coll[k][idx[MinOf(bad)]] = doc[idx[MinOf(bad)]]}
    IN  IF bad = {}
          THEN [inserted |-> TRUE, coll |-> Append(coll, doc), error |-> <<>>]
          ELSE [inserted |-> TRUE, coll |-> [coll EXCEPT ![MinOf(held)] = doc], error |-> <<>>]

\* Mutant of insert_one: no unique index is consulted.
insert_one_unchecked(coll, idx, doc) ==
    [inserted |-> TRUE, coll |-> Append(coll, doc), error |-> <<>>]

\* users_collection.insert_one(doc): one atomic store operation.  The document
\* is appended, or the first violated unique index raises DuplicateKeyError
\* and the collection is left as it was.
insert_one(coll, idx, doc) ==
    LET bad == Violated(coll, idx, doc)
    IN  IF bad = {}
          THEN [inserted |-> TRUE, coll |-> Append(coll, doc), error |-> <<>>]
          ELSE [inserted |-> FALSE, coll |-> coll,
                error |-> DuplicateKeyError(idx[MinOf(bad)], doc[idx[MinOf(bad)]])]

\* create_indexes(): a unique index on username, then one on email; creating
\* an index that exists changes nothing.
create_indexes(idx) ==
    LET withUser == IF \E i \in 1..Len(idx) : idx[i] = "username"
                      THEN idx ELSE Append(idx, "username")
    IN  IF \E i \in 1..Len(withUser) : withUser[i] = "email"
          THEN withUser ELSE Append(withUser, "email")

(***************************************************************************)
(* Responses.  response is what the step just taken returned to its caller: *)
(* the HTTP status, the detail of an HTTPException, whether the             *)
(* WWW-Authenticate: Bearer header is set, and the body; with it the        *)
(* operation and the request it answers.  A step that returns nothing to a *)
(* caller leaves NoResponse.                                                *)
(***************************************************************************)
NoResponse == [op |-> "none"]

HTTPException(op, request, status_code, detail, challenge) ==
    [op |-> op, request |-> request, status |-> status_code, detail |-> detail,
     challenge |-> challenge, body |-> NoBody]

Ok(op, request, body) ==
    [op |-> op, request |-> request, status |-> 200, detail |-> NoDetail,
     challenge |-> FALSE, body |-> body]

\* What the caller sees of a response.
Visible(r) ==
    [status |-> r.status, detail |-> r.detail, challenge |-> r.challenge,
     body |-> r.body]

\* UserOut(**d): the response model of /register and /users/me/.
UserOut(d) ==
    [username |-> d.username, email |-> d.email, full_name |-> d.full_name,
     disabled |-> d.disabled]

Idle == [st |-> "idle"]

\* No Authorization header.
NoToken == [absent |-> TRUE]

(***************************************************************************)
(* Process start.                                                          *)
(***************************************************************************)
Init ==
    /\ users = <<>>
    /\ indexes = <<>>
    /\ serving = FALSE
    /\ regs = [r \in 1..MaxInFlight |-> Idle]
    /\ wire = NoToken
    /\ gate = Idle
    /\ now = 0
    /\ posts = <<>>
    /\ response = NoResponse

\* The document startup_db_client seeds.
test_user(salt) ==
    [username |-> JOHNDOE, email |-> JOHNDOE_EMAIL, full_name |-> JOHN_DOE,
     hashed_password |-> get_password_hash(SECRET, salt), disabled |-> FALSE]

\* startup_db_client: runs to its end before the first request is served.
Startup(salt) ==
    /\ ~serving
    /\ indexes' = create_indexes(indexes)
    /\ users' = IF Len(users) = 0
                  THEN insert_one(users, indexes', test_user(salt)).coll
                  ELSE users
    /\ serving' = TRUE
    /\ response' = NoResponse
    /\ UNCHANGED <<regs, wire, gate, now, posts>>

\* The process stops and is started again: the requests in flight are
\* abandoned, the database keeps its documents and indexes.
Restart ==
    /\ serving
    /\ serving' = FALSE
    /\ regs' = [r \in 1..MaxInFlight |-> Idle]
    /\ gate' = Idle
    /\ response' = NoResponse
    /\ UNCHANGED <<users, indexes, wire, now, posts>>

\* Time passes.
Tick(d) ==
    /\ now + d <= MaxClock
    /\ now' = now + d
    /\ response' = NoResponse
    /\ UNCHANGED <<users, indexes, serving, regs, wire, gate, posts>>

(***************************************************************************)
(* POST /register.                                                         *)
(***************************************************************************)
\* Mutant of user_dict: "del user_dict['password']" is missing.
user_dict_with_password(user, salt) ==
    [username |-> user.username, email |-> user.email,
     full_name |-> user.full_name, password |-> user.password,
     hashed_password |-> get_password_hash(user.password, salt),
     disabled |-> FALSE]

\* user.dict() with hashed_password and disabled set and password deleted.
user_dict(user, salt) ==
    [username |-> user.username, email |-> user.email,
     full_name |-> user.full_name,
     hashed_password |-> get_password_hash(user.password, salt),
     disabled |-> FALSE]

\* register_user up to its await: the document to insert is built.  A request
\* slot keeps, besides the handler's locals, the requests that were in flight
\* when this one arrived (overlap), for as long as they stay in their slots.
RegisterBegin(r, user, salt) ==
    /\ serving
    /\ regs[r].st # "pending"
    /\ regs' = [q \in DOMAIN regs |->
                   IF q = r
                     THEN [st |-> "pending", user |-> user, doc |-> user_dict(user, salt),
                           overlap |-> {o \in DOMAIN regs : regs[o].st = "pending"}]
                   ELSE IF regs[q].st = "idle" THEN regs[q]
                   ELSE [regs[q] EXCEPT !.overlap = @ \ {r}]]
    /\ response' = NoResponse
    /\ UNCHANGED <<users, indexes, serving, wire, gate, now, posts>>

\* The response of register_user to the outcome of its insert.
register_response(user, doc, result) ==
    IF result.inserted THEN Ok("register", user, UserOut(doc))
    ELSE IF Contains(result.error, USERNAME)
      THEN HTTPException("register", user, 400, "Username already registered", FALSE)
    ELSE IF Contains(result.error, EMAIL)
      THEN HTTPException("register", user, 400, "Email already registered", FALSE)
    ELSE HTTPException("register", user, 400, "Registration failed", FALSE)

\* register_user from its await on: the insert and the response.
RegisterInsert(r) ==
    /\ serving
    /\ regs[r].st = "pending"
    /\ LET result == insert_one(users, indexes, regs[r].doc)
       IN  /\ users' = result.coll
           /\ response' = register_response(regs[r].user, regs[r].doc, result)
           /\ regs' = [regs EXCEPT ![r] =
                          [st |-> "done", user |-> regs[r].user, doc |-> regs[r].doc,
                           overlap |-> regs[r].overlap,
                           inserted |-> result.inserted, error |-> result.error]]
    /\ UNCHANGED <<indexes, serving, wire, gate, now, posts>>

(***************************************************************************)
(* POST /token.                                                            *)
(***************************************************************************)
False == [bool |-> FALSE]

\* get_user(username): the stored record or None.
get_user(coll, username) == find_one(coll, username)

\* Mutant of authenticate_user: a disabled record does not authenticate.
authenticate_user_active(coll, username, password) ==
    LET user == get_user(coll, username)
    IN  IF user = NoDocument THEN False
        ELSE IF ~verify_password(password, user.hashed_password) THEN False
        ELSE IF user.disabled THEN False
        ELSE user

\* authenticate_user(username, password): the record, or False.
authenticate_user(coll, username, password) ==
    LET user == get_user(coll, username)
    IN  IF user = NoDocument THEN False
        ELSE IF ~verify_password(password, user.hashed_password) THEN False
        ELSE user

\* Mutant of login_response: an unknown user name is answered 404.
login_response_oracle(coll, form, t) ==
    LET user == authenticate_user(coll, form.username, form.password)
    IN  IF get_user(coll, form.username) = NoDocument
          THEN HTTPException("login", form, 404, "User not found", FALSE)
        ELSE IF user = False
          THEN HTTPException("login", form, 401, "Incorrect username or password", TRUE)
          ELSE Ok("login", form,
                  [access_token |->
                       create_access_token([sub |-> user.username],
                                           timedelta(ACCESS_TOKEN_EXPIRE_MINUTES), t),
                   token_type |-> "bearer"])

\* Mutant of login_response: no expires_delta is handed to create_access_token.
login_response_default_ttl(coll, form, t) ==
    LET user == authenticate_user(coll, form.username, form.password)
    IN  IF user = False
          THEN HTTPException("login", form, 401, "Incorrect username or password", TRUE)
          ELSE Ok("login", form,
                  [access_token |-> create_access_token([sub |-> user.username], NoTtl, t),
                   token_type |-> "bearer"])

\* Mutant of login_response: the subject of the token is the e-mail address.
login_response_email_subject(coll, form, t) ==
    LET user == authenticate_user(coll, form.username, form.password)
    IN  IF user = False
          THEN HTTPException("login", form, 401, "Incorrect username or password", TRUE)
          ELSE Ok("login", form,
                  [access_token |->
                       create_access_token([sub |-> user.email],
                                           timedelta(ACCESS_TOKEN_EXPIRE_MINUTES), t),
                   token_type |-> "bearer"])

\* The response of login_for_access_token at clock time t.
login_response(coll, form, t) ==
    LET user == authenticate_user(coll, form.username, form.password)
    IN  IF user = False
          THEN HTTPException("login", form, 401, "Incorrect username or password", TRUE)
          ELSE Ok("login", form,
                  [access_token |->
                       create_access_token([sub |-> user.username],
                                           timedelta(ACCESS_TOKEN_EXPIRE_MINUTES), t),
                   token_type |-> "bearer"])

\* login_for_access_token; the client keeps the token it is given.
Login(form) ==
    /\ serving
    /\ response' = login_response(users, form, now)
    /\ wire' = IF response'.status = 200 THEN response'.body.access_token ELSE wire
    /\ UNCHANGED <<users, indexes, serving, regs, gate, now, posts>>

(***************************************************************************)
(* The dependency of every protected endpoint: get_current_active_user     *)
(* over get_current_user, here in front of GET /users/me/.                  *)
(***************************************************************************)
\* Mutant of credentials_exception: the detail repeats the message of the
\* decoder's error for a token past its expiry.
credentials_exception_leaky(request) ==
    HTTPException("resolve", request, 401,
                  IF request.token # Garbage /\ request.token.claims.exp < request.at
                    THEN "Signature has expired." ELSE "Could not validate credentials",
                  TRUE)

credentials_exception(request) ==
    HTTPException("resolve", request, 401, "Could not validate credentials", TRUE)

\* What a client can put in the Authorization header: the token it was given,
\* that token with its subject or its expiry rewritten (the signature kept),
\* a token it signed itself with a key of its own or left unsigned, something
\* that is no token, or nothing.
ATTACKER_KEY == "attacker-key"

Tampered(token, subjects) ==
    IF token = NoToken THEN {}
    ELSE {[token EXCEPT !.claims.sub = u] : u \in subjects \ {token.claims.sub}}
         \cup {[token EXCEPT !.claims.exp = token.claims.exp + ACCESS_TOKEN_EXPIRE_MINUTES]}

Forged(subjects, t) ==
    {jwt_encode([sub |-> u, exp |-> t + ACCESS_TOKEN_EXPIRE_MINUTES], ATTACKER_KEY, ALGORITHM) :
        u \in subjects}
    \cup {[alg |-> "none", claims |-> [sub |-> u, exp |-> t + ACCESS_TOKEN_EXPIRE_MINUTES],
           sig |-> <<>>] : u \in subjects}

Presentable(subjects) ==
    {wire, Garbage} \cup Tampered(wire, subjects) \cup Forged(subjects, now)

\* A request to a protected endpoint, up to the await of get_current_user:
\* the token is decoded at the current clock time; a token that decodes
\* leaves the request waiting for the store.  payload is the JSON body the
\* client sent (NoPayload where the endpoint takes none).
NoPayload == [none |-> TRUE]

Request(endpoint, payload, token) ==
    /\ serving
    /\ gate = Idle
    /\ endpoint = "create_post" => Len(posts) < MaxPosts
    /\ LET request == [token |-> token, at |-> now, endpoint |-> endpoint, payload |-> payload]
           decoded == jwt_decode(token, SECRET_KEY, ALGORITHM, now)
       IN  IF token = NoToken
             THEN /\ response' = HTTPException("resolve", request, 401, "Not authenticated", TRUE)
                  /\ gate' = gate
           ELSE IF decoded = JWTError
             THEN /\ response' = credentials_exception(request)
                  /\ gate' = gate
           ELSE IF decoded.sub = None
             THEN /\ response' = credentials_exception(request)
                  /\ gate' = gate
           ELSE /\ response' = NoResponse
                /\ gate' = [st |-> "lookup", request |-> request, username |-> decoded.sub]
    /\ UNCHANGED <<users, indexes, serving, regs, wire, now, posts>>

\* GET /users/me/ with the given Authorization header.
ResolveDecode(token) == Request("users_me", NoPayload, token)

\* get_current_user from its await on, get_current_active_user and
\* read_users_me: the outcome for the record read from the store.
\* Mutant of resolve_response: the disabled flag of the record is not looked at.
resolve_response_nodisabled(request, user) ==
    IF user = NoDocument THEN credentials_exception(request)
    ELSE Ok("resolve", request, UserOut([user EXCEPT !.disabled = FALSE]))

\* Mutant of resolve_response: only the token issued last is honoured.
resolve_response_session(request, user) ==
    IF user = NoDocument \/ request.token # wire THEN credentials_exception(request)
    ELSE IF user.disabled THEN HTTPException("resolve", request, 400, "Inactive user", FALSE)
    ELSE Ok("resolve", request, UserOut(user))

\* Mutant of resolve_response: a subject without a record gets its own answer.
resolve_response_notfound(request, user) ==
    IF user = NoDocument THEN HTTPException("resolve", request, 404, "User not found", FALSE)
    ELSE IF user.disabled THEN HTTPException("resolve", request, 400, "Inactive user", FALSE)
    ELSE Ok("resolve", request, UserOut(user))

resolve_response(request, user) ==
    IF user = NoDocument THEN credentials_exception(request)
    ELSE IF user.disabled THEN HTTPException("resolve", request, 400, "Inactive user", FALSE)
    ELSE Ok("resolve", request, UserOut(user))

\* PostCreate: the declared fields of the body; any other field the client
\* sent is dropped.
PostCreate(payload) == [caption |-> payload.caption, image_url |-> payload.image_url]

\* Mutant of post_dict: an owner the client sent is kept.
post_dict_client_owner(payload, current_user, t) ==
    [caption |-> payload.caption, image_url |-> payload.image_url,
     owner_username |-> IF payload.owner_username = None THEN current_user.username
                        ELSE payload.owner_username,
     created_at |-> t]

\* create_post up to its first await: the document to insert.
post_dict(payload, current_user, t) ==
    [caption |-> PostCreate(payload).caption, image_url |-> PostCreate(payload).image_url,
     owner_username |-> current_user.username, created_at |-> t]

\* Mutant of ResolveLookup: the posts endpoints depend on get_current_user,
\* not on get_current_active_user.
ResolveLookup_current_user ==
    /\ serving
    /\ gate.st = "lookup"
    /\ LET user == get_user(users, gate.username)
           outcome == resolve_response(gate.request, user)
       IN  IF user = NoDocument \/ gate.request.endpoint = "users_me"
             THEN /\ response' = outcome
                  /\ gate' = Idle
           ELSE /\ response' = NoResponse
                /\ gate' = [st |-> "handler", request |-> gate.request,
                            current_user |-> user,
                            post_dict |-> IF gate.request.endpoint = "create_post"
                                            THEN post_dict(gate.request.payload, user, now)
                                            ELSE NoDocument]
    /\ UNCHANGED <<users, indexes, serving, regs, wire, now, posts>>

\* The get_user of get_current_user answers; get_current_active_user looks
\* at the record; read_users_me returns it, create_post and read_my_posts run
\* up to their first await.
ResolveLookup ==
    /\ serving
    /\ gate.st = "lookup"
    /\ LET user == get_user(users, gate.username)
           outcome == resolve_response(gate.request, user)
       IN  IF outcome.status # 200 \/ gate.request.endpoint = "users_me"
             THEN /\ response' = outcome
                  /\ gate' = Idle
           ELSE /\ response' = NoResponse
                /\ gate' = [st |-> "handler", request |-> gate.request,
                            current_user |-> user,
                            post_dict |-> IF gate.request.endpoint = "create_post"
                                            THEN post_dict(gate.request.payload, user, now)
                                            ELSE NoDocument]
    /\ UNCHANGED <<users, indexes, serving, regs, wire, now, posts>>

(***************************************************************************)
(* The posts endpoints.                                                    *)
(***************************************************************************)
\* Post(**created_post): the response model of a stored document.
Post(doc) ==
    [id |-> doc._id, caption |-> doc.caption, image_url |-> doc.image_url,
     owner_username |-> doc.owner_username, created_at |-> doc.created_at]

\* db.posts.insert_one: the document gets its _id.
posts_insert_one(coll, doc) ==
    Append(coll, [_id |-> Len(coll) + 1, caption |-> doc.caption, image_url |-> doc.image_url,
                  owner_username |-> doc.owner_username, created_at |-> doc.created_at])

\* db.posts.find(filter): the documents of an owner, or all of them (None).
posts_find(coll, owner) ==
    LET Matches(doc) == owner = None \/ doc.owner_username = owner
    IN  SelectSeq(coll, Matches)

\* .sort("created_at", -1): the orders the server can return, newest first;
\* the order of documents of equal created_at is not fixed.
sort_created_at_desc(docs) ==
    LET n == Len(docs)
        Orders == {f \in [1..n -> 1..n] :
                      /\ \A i, j \in 1..n : i # j => f[i] # f[j]
                      /\ \A i \in 1..(n - 1) : docs[f[i]].created_at >= docs[f[i + 1]].created_at}
    IN  {[i \in 1..n |-> docs[f[i]]] : f \in Orders}

\* .skip(n) and .limit(n) of a cursor; limit(0) is no limit.
cursor_skip(docs, n) == SubSeq(docs, n + 1, Len(docs))

cursor_limit(docs, n) == IF n = 0 THEN docs ELSE SubSeq(docs, 1, Min(n, Len(docs)))

\* The documents a cursor yielded, as the list of Post a handler returns.
PostList(docs) == [i \in 1..Len(docs) |-> Post(docs[i])]

\* create_post from its first await on: the insert, the read back by _id,
\* the response.
CreatePost ==
    /\ serving
    /\ gate.st = "handler"
    /\ gate.request.endpoint = "create_post"
    /\ posts' = posts_insert_one(posts, gate.post_dict)
    /\ response' = Ok("create_post", gate.request, Post(posts'[Len(posts')]))
    /\ gate' = Idle
    /\ UNCHANGED <<users, indexes, serving, regs, wire, now>>

\* read_my_posts from its cursor on.
ReadMyPosts ==
    /\ serving
    /\ gate.st = "handler"
    /\ gate.request.endpoint = "my_posts"
    /\ \E docs \in sort_created_at_desc(posts_find(posts, gate.current_user.username)) :
           response' = Ok("my_posts", gate.request, PostList(docs))
    /\ gate' = Idle
    /\ UNCHANGED <<users, indexes, serving, regs, wire, now, posts>>

\* read_posts: no dependency stands in front of it.
ReadPosts(skip, limit) ==
    /\ serving
    /\ \E docs \in sort_created_at_desc(posts_find(posts, None)) :
           response' = Ok("read_posts", [skip |-> skip, limit |-> limit],
                          PostList(cursor_limit(cursor_skip(docs, skip), limit)))
    /\ UNCHANGED <<users, indexes, serving, regs, wire, gate, now, posts>>

(***************************************************************************)
(* The disabled flag is set in the store directly: no endpoint writes it.   *)
(***************************************************************************)
SetDisabled(k, flag) ==
    /\ k \in 1..Len(users)
    /\ users[k].disabled # flag
    /\ users' = [users EXCEPT ![k].disabled = flag]
    /\ response' = NoResponse
    /\ UNCHANGED <<indexes, serving, regs, wire, gate, now, posts>>

(***************************************************************************)
(* The service: start, registration, login, token-gated requests, the      *)
(* disabled flag and the clock.                                            *)
(***************************************************************************)
Subjects == {JOHNDOE, ALICE}

Newcomers ==
    {[username |-> ALICE, email |-> USERNAME_EMAIL, full_name |-> None, password |-> SECRET]}

Forms ==
    {[username |-> JOHNDOE, password |-> SECRET], [username |-> JOHNDOE, password |-> WRONG],
     [username |-> ALICE, password |-> SECRET], [username |-> BOB, password |-> SECRET]}

ClockSteps == {15, 16}

Next ==
    \/ Startup("salt1")
    \/ Restart
    \/ \E d \in ClockSteps : Tick(d)
    \/ \E user \in Newcomers : RegisterBegin(1, user, "salt1")
    \/ RegisterInsert(1)
    \/ \E form \in Forms : Login(form)
    \/ \E token \in Presentable(Subjects) : ResolveDecode(token)
    \/ ResolveLookup
    \/ \E k \in 1..Len(users), flag \in BOOLEAN : SetDisabled(k, flag)

Spec == Init /\ [][Next]_vars

(***************************************************************************)
(* Registration on its own: every slot, more names and addresses.          *)
(***************************************************************************)
Applicants ==
    {[username |-> u, email |-> e, full_name |-> None, password |-> SECRET] :
        u \in {JOHNDOE, ALICE, BOB}, e \in {JOHNDOE_EMAIL, USERNAME_EMAIL}}

NextReg ==
    \/ Startup("salt1")
    \/ Restart
    \/ \E r \in 1..MaxInFlight, user \in Applicants : RegisterBegin(r, user, "salt1")
    \/ \E r \in 1..MaxInFlight : RegisterInsert(r)

SpecReg == Init /\ [][NextReg]_vars

(***************************************************************************)
(* The token codec on its own: create_access_token and jwt.decode applied  *)
(* to bounded inputs.                                                      *)
(***************************************************************************)
\* create_access_token(data, expires_delta) is called; the token is kept.
IssueCall(data, expires_delta) ==
    /\ wire' = create_access_token(data, expires_delta, now)
    /\ response' = Ok("issue", [data |-> data, expires_delta |-> expires_delta, at |-> now],
                      wire')
    /\ UNCHANGED <<users, indexes, serving, regs, gate, now, posts>>

\* jwt.decode(token, SECRET_KEY, algorithms=[ALGORITHM]) is called on the
\* token kept.
DecodeCall ==
    /\ wire # NoToken
    /\ response' = Ok("decode", [token |-> wire, at |-> now],
                      jwt_decode(wire, SECRET_KEY, ALGORITHM, now))
    /\ UNCHANGED <<users, indexes, serving, regs, wire, gate, now, posts>>

Datas == {[sub |-> u] : u \in {JOHNDOE, ALICE, None}}

Deltas == {NoTtl} \cup {timedelta(m) : m \in {0, 1, DEFAULT_EXPIRE_MINUTES, ACCESS_TOKEN_EXPIRE_MINUTES}}

NextCodec ==
    \/ \E data \in Datas, expires_delta \in Deltas : IssueCall(data, expires_delta)
    \/ DecodeCall
    \/ \E d \in ClockSteps \cup {1} : Tick(d)

SpecCodec == Init /\ [][NextCodec]_vars

(***************************************************************************)
(* get_current_active_user applied to bounded inputs: tokens signed with   *)
(* SECRET_KEY for any subject, no subject included, with any lifetime,     *)
(* and what a client can make of them, in front of GET /users/me/.          *)
(***************************************************************************)
NextToken ==
    \/ Startup("salt1")
    \/ \E data \in Datas, expires_delta \in Deltas : IssueCall(data, expires_delta)
    \/ \E d \in ClockSteps : Tick(d)
    \/ \E token \in Presentable(Subjects \cup {None}) \cup {NoToken} : ResolveDecode(token)
    \/ ResolveLookup
    \/ \E k \in 1..Len(users), flag \in BOOLEAN : SetDisabled(k, flag)

SpecToken == Init /\ [][NextToken]_vars

(***************************************************************************)
(* The service with its posts endpoints: every protected endpoint behind   *)
(* the token gate, registration, login, the disabled flag and the clock.   *)
(***************************************************************************)
Endpoints == {"users_me", "create_post", "my_posts"}

\* The JSON bodies of POST /posts/: the declared fields, and with them an
\* owner_username the model of the body does not declare.
CAPTION == <<"h","i">>
IMAGE_URL == <<"/","a",".","p","n","g">>

Payloads(endpoint) ==
    IF endpoint = "create_post"
      THEN {[caption |-> CAPTION, image_url |-> IMAGE_URL, owner_username |-> o] :
                o \in {None, JOHNDOE}}
      ELSE {NoPayload}

AppForms ==
    {[username |-> JOHNDOE, password |-> SECRET], [username |-> JOHNDOE, password |-> WRONG],
     [username |-> ALICE, password |-> SECRET]}

AppTokens == {wire, Garbage, NoToken} \cup Tampered(wire, Subjects)

AppClockSteps == {MaxClock}

NextApp ==
    \/ Startup("salt1")
    \/ \E d \in AppClockSteps : Tick(d)
    \/ \E user \in Newcomers : RegisterBegin(1, user, "salt1")
    \/ RegisterInsert(1)
    \/ \E form \in AppForms : Login(form)
    \/ \E endpoint \in Endpoints, token \in AppTokens :
          \E payload \in Payloads(endpoint) : Request(endpoint, payload, token)
    \/ ResolveLookup
    \/ CreatePost
    \/ ReadMyPosts
    \/ \E skip \in {0, 1} : ReadPosts(skip, 10)
    \/ \E k \in 1..Len(users), flag \in BOOLEAN : SetDisabled(k, flag)

SpecApp == Init /\ [][NextApp]_vars

\* The event loop resumes a request whose store operation has answered.
SpecAppLive ==
    SpecApp /\ WF_vars(ResolveLookup) /\ WF_vars(CreatePost) /\ WF_vars(ReadMyPosts)

(***************************************************************************)
(* Properties of the token gate.                                           *)
(***************************************************************************)
\* The token's signature is the server's: made with SECRET_KEY over exactly
\* the algorithm and the claims the token carries.
Genuine(token) ==
    /\ token # NoToken
    /\ token # Garbage
    /\ token.alg = ALGORITHM
    /\ token.sig = Sign(SECRET_KEY, ALGORITHM, token.claims)

Rejected401(r) ==
    /\ r.status = 401
    /\ r.detail = "Could not validate credentials"
    /\ r.challenge
    /\ r.body = NoBody

\* C1: a request is handed the identity of user u only if its token carries the
\* server's signature under HS256 over its claims, names u as its subject, had
\* not passed its expiry when it was decoded, and u has a record in the store
\* that is not disabled; a token that is not signed with the server's secret
\* over the claims it carries (another secret, a rewritten subject or expiry)
\* is answered 401 "Could not validate credentials".
C1_ResolveOnlyGenuine ==
    response.op = "resolve" =>
        LET token == response.request.token
        IN  /\ response.status = 200 =>
                /\ Genuine(token)
                /\ token.claims.sub = response.body.username
                /\ response.request.at <= token.claims.exp
                /\ \E k \in 1..Len(users) :
                      /\ users[k].username = response.body.username
                      /\ ~users[k].disabled
            /\ (token # NoToken /\ ~Genuine(token)) => Rejected401(response)

C1_Witness ==
    /\ response.op = "resolve"
    /\ response.status = 200
    /\ response.body.username = ALICE

\* A rewritten token was presented and turned away.
C1_WitnessTampered ==
    /\ response.op = "resolve"
    /\ wire # NoToken
    /\ response.request.token \in Tampered(wire, Subjects)
    /\ response.status = 401

\* C2 as claimed: a resolve is accepted only while the clock is before the
\* token's expiry, and fails with 401 at any clock time after it.
C2_AcceptedOnlyBeforeExpiry ==
    (response.op = "resolve" /\ Genuine(response.request.token)) =>
        LET token == response.request.token
        IN  /\ response.status = 200 => response.request.at < token.claims.exp
            /\ token.claims.exp < response.request.at => Rejected401(response)

\* C2, amended: a genuine token resolved at a clock time after its expiry is
\* answered 401 whatever the user's record is, at that and every later clock
\* time; a resolve is accepted only while the clock is not past the expiry:
\* at the expiry instant itself jose still accepts the token.
C2_AcceptedOnlyUntilExpiry ==
    (response.op = "resolve" /\ Genuine(response.request.token)) =>
        LET token == response.request.token
        IN  /\ response.status = 200 => response.request.at <= token.claims.exp
            /\ token.claims.exp < response.request.at => Rejected401(response)

C2_Witness ==
    /\ response.op = "resolve"
    /\ Genuine(response.request.token)
    /\ response.request.token.claims.exp < response.request.at
    /\ response.status = 401

\* C3: for a genuine token decoded before it expired whose subject has a record,
\* the outcome follows the record as the store holds it when it is read: 200
\* with that record while disabled is false, 400 "Inactive user" once disabled
\* is true.
C3_IdentityReadFresh ==
    (/\ response.op = "resolve"
     /\ Genuine(response.request.token)
     /\ response.request.at <= response.request.token.claims.exp) =>
        LET user == find_one(users, response.request.token.claims.sub)
        IN  user # NoDocument =>
                IF user.disabled
                  THEN /\ response.status = 400
                       /\ response.detail = "Inactive user"
                       /\ response.body = NoBody
                  ELSE /\ response.status = 200
                       /\ response.body = UserOut(user)

C3_Witness ==
    /\ response.op = "resolve"
    /\ Genuine(response.request.token)
    /\ response.request.at <= response.request.token.claims.exp
    /\ response.status = 400
    /\ response.detail = "Inactive user"

(***************************************************************************)
(* Properties of the token codec.                                          *)
(***************************************************************************)
\* C4: decoding, at the instant of issue and with SECRET_KEY and HS256, the
\* token create_access_token made for subject u and a positive ttl succeeds
\* and yields u.
C4_RoundTrip ==
    response.op = "decode" =>
        \A data \in Datas, delta \in Deltas :
            (/\ data.sub # None
             /\ delta # NoTtl
             /\ delta.minutes > 0
             /\ response.request.token =
                    create_access_token(data, delta, response.request.at)) =>
                /\ response.body # JWTError
                /\ response.body.sub = data.sub

C4_Witness ==
    /\ response.op = "decode"
    /\ response.request.token =
           create_access_token([sub |-> ALICE], timedelta(1), response.request.at)
    /\ response.body # JWTError
    /\ response.body.sub = ALICE

\* C10: for every ttl the caller supplies, zero included, the expiry is the
\* time of issue plus that ttl; the 15 minutes are used only when no ttl is
\* supplied.
C10_ExpiryIsIssuePlusTtl ==
    response.op = "issue" =>
        LET delta == response.request.expires_delta
            exp == response.body.claims.exp
        IN  IF delta = NoTtl
              THEN exp = response.request.at + DEFAULT_EXPIRE_MINUTES
              ELSE delta.minutes >= 0 => exp = response.request.at + delta.minutes

(***************************************************************************)
(* Registration and login on their own: more passwords, both salts.        *)
(***************************************************************************)
AuthApplicants ==
    {[username |-> ALICE, email |-> USERNAME_EMAIL, full_name |-> None, password |-> p] :
        p \in {SECRET, LONG_X}}
    \cup {[username |-> BOB, email |-> BOB_EMAIL, full_name |-> None, password |-> SECRET]}

AuthForms ==
    {[username |-> ALICE, password |-> p] : p \in {SECRET, LONG_X, LONG_Y}}
    \cup {[username |-> u, password |-> p] : u \in {JOHNDOE, BOB}, p \in {SECRET, WRONG}}

NextAuth ==
    \/ \E salt \in Salts : Startup(salt)
    \/ \E r \in {1, 2}, user \in AuthApplicants : RegisterBegin(r, user, "salt2")
    \/ \E r \in {1, 2} : RegisterInsert(r)
    \/ \E form \in AuthForms : Login(form)

SpecAuth == Init /\ [][NextAuth]_vars

(***************************************************************************)
(* Properties of login.                                                    *)
(***************************************************************************)
LoginRefused ==
    [status |-> 401, detail |-> "Incorrect username or password", challenge |-> TRUE,
     body |-> NoBody]

\* C5: a login whose user name has no record and a login whose user name has
\* a record but whose password does not verify get one and the same response,
\* 401 "Incorrect username or password" with the Bearer challenge, and no
\* token.
C5_NoExistenceOracle ==
    response.op = "login" =>
        LET form == response.request
            user == find_one(users, form.username)
        IN  /\ user = NoDocument => Visible(response) = LoginRefused
            /\ (user # NoDocument /\ ~verify_password(form.password, user.hashed_password))
                   => Visible(response) = LoginRefused

C5_Witness ==
    /\ response.op = "login"
    /\ find_one(users, response.request.username) = NoDocument
    /\ Visible(response) = LoginRefused
    /\ Len(users) > 1

\* A wrong password for a name that has a record got the same response.
C5_WitnessWrongPassword ==
    /\ response.op = "login"
    /\ find_one(users, response.request.username) # NoDocument
    /\ Visible(response) = LoginRefused

\* The slots holding a registration that was inserted for username.
RegisteredIn(username) ==
    {r \in DOMAIN regs :
        /\ regs[r].st = "done"
        /\ regs[r].inserted
        /\ regs[r].user.username = username}

\* C6 as claimed: after register(u, p) succeeded, a login as u succeeds exactly
\* when the password submitted is p.
C6_LoginIffSamePassword ==
    response.op = "login" =>
        \A r \in RegisteredIn(response.request.username) :
            response.status = 200 <=> response.request.password = regs[r].user.password

\* C6, amended: after register(u, p) succeeded, a login as u with password p'
\* succeeds, with a token for u, exactly when p' and p agree on the first 72
\* bytes, which are all that bcrypt reads; for passwords of at most 72 bytes
\* that is exactly when p' = p.  Registrations and logins of other users do
\* not change this.
C6_LoginIffSameBcryptInput ==
    response.op = "login" =>
        \A r \in RegisteredIn(response.request.username) :
            /\ response.status = 200 <=>
                   BcryptInput(response.request.password) = BcryptInput(regs[r].user.password)
            /\ response.status = 200 =>
                   response.body.access_token.claims.sub = regs[r].user.username
            /\ (/\ Len(response.request.password) <= BcryptMaxBytes
                /\ Len(regs[r].user.password) <= BcryptMaxBytes) =>
                   (response.status = 200 <=>
                        response.request.password = regs[r].user.password)

\* alice's login succeeds with her password after bob registered as well.
C6_Witness ==
    /\ response.op = "login"
    /\ response.status = 200
    /\ response.request.username = ALICE
    /\ \E r \in RegisteredIn(ALICE) : response.request.password = regs[r].user.password
    /\ RegisteredIn(BOB) # {}

(***************************************************************************)
(* Properties of registration.                                             *)
(***************************************************************************)
Holders(field, value) == {k \in 1..Len(users) : users[k][field] = value}

Done == {r \in DOMAIN regs : regs[r].st = "done"}

\* Two requests that were in flight at the same time.
Concurrent(r1, r2) == r1 \in regs[r2].overlap \/ r2 \in regs[r1].overlap

Unique(field) ==
    \A i, j \in 1..Len(users) : users[i][field] = users[j][field] => i = j

\* C7 as claimed: no two records share a username or an email, and when
\* concurrent registrations use one username, or one email, exactly one insert
\* of that value succeeds (the seeding insert counted): exactly one record
\* holds it once they are done.
C7_ExactlyOneInserted ==
    /\ Unique("username")
    /\ Unique("email")
    /\ \A field \in {"username", "email"} : \A r1, r2 \in Done :
          (/\ r1 # r2
           /\ Concurrent(r1, r2)
           /\ regs[r1].doc[field] = regs[r2].doc[field]) =>
              Cardinality(Holders(field, regs[r1].doc[field])) = 1

\* C7, amended: no two records share a username or an email under any
\* interleaving of registrations; of the concurrent registrations that use one
\* username, or one email, at most one is inserted, and every one that is not
\* fails with the duplicate-key error of a field whose value a stored record
\* holds.  (None is inserted when each of them collides with a stored record.)
C7_AtMostOneInserted ==
    /\ Unique("username")
    /\ Unique("email")
    /\ \A r \in Done :
          IF regs[r].inserted
            THEN /\ regs[r].error = <<>>
                 /\ \E k \in 1..Len(users) : users[k] = regs[r].doc
            ELSE \E field \in {"username", "email"} :
                     /\ regs[r].error = DuplicateKeyError(field, regs[r].doc[field])
                     /\ Holders(field, regs[r].doc[field]) # {}
    /\ \A field \in {"username", "email"} : \A r1, r2 \in Done :
          (/\ r1 # r2
           /\ Concurrent(r1, r2)
           /\ regs[r1].doc[field] = regs[r2].doc[field]) =>
              ~(regs[r1].inserted /\ regs[r2].inserted)

\* Two registrations in flight together used one username: one was inserted,
\* the other was not.
C7_Witness ==
    \E r1, r2 \in Done :
        /\ Concurrent(r1, r2)
        /\ regs[r1].doc.username = regs[r2].doc.username
        /\ regs[r1].inserted
        /\ ~regs[r2].inserted

\* C8: a registration refused for a uniqueness violation is told the field
\* that collided: "Username already registered" when a record holds its
\* username, "Email already registered" when its username is free and a record
\* holds its email.
C8_CollidingFieldReported ==
    (response.op = "register" /\ response.status = 400) =>
        LET user == response.request
        IN  /\ Holders("username", user.username) # {} =>
                   response.detail = "Username already registered"
            /\ (/\ Holders("username", user.username) = {}
                /\ Holders("email", user.email) # {}) =>
                   response.detail = "Email already registered"

StoredFields == {"username", "email", "full_name", "hashed_password", "disabled"}

HashesOf(password) == {get_password_hash(password, salt) : salt \in Salts}

\* C9: every record of the store has exactly the fields username, email,
\* full_name, hashed_password and disabled (no password field); the record
\* written for a registration holds the submitted username, email and full
\* name and, as hashed_password, the bcrypt hash of the submitted password;
\* the seeded record holds the hash of "secret".
C9_NoPlaintextStored ==
    /\ \A k \in 1..Len(users) :
          /\ DOMAIN users[k] = StoredFields
          /\ DOMAIN users[k].hashed_password = {"scheme", "salt", "digest"}
          /\ users[k].hashed_password.scheme = "bcrypt"
          /\ users[k].username = JOHNDOE => users[k].hashed_password \in HashesOf(SECRET)
    /\ \A r \in Done :
          regs[r].inserted =>
              \E k \in 1..Len(users) :
                  /\ users[k].username = regs[r].user.username
                  /\ users[k].email = regs[r].user.email
                  /\ users[k].full_name = regs[r].user.full_name
                  /\ users[k].hashed_password \in HashesOf(regs[r].user.password)
                  /\ verify_password(regs[r].user.password, users[k].hashed_password)

C9_Witness ==
    \E r \in Done :
        /\ regs[r].inserted
        /\ regs[r].user.password = LONG_X
        /\ \E k \in 1..Len(users) : users[k].username = regs[r].user.username

(***************************************************************************)
(* Properties of get_current_active_user over any signed token.            *)
(***************************************************************************)
\* The token does not get past the decoding of get_current_user at time t:
\* it is no token, names another algorithm, carries a signature that is not
\* the server's, has passed its expiry, or has no subject.
FailsVerification(token, t) ==
    \/ token = Garbage
    \/ token.alg # ALGORITHM
    \/ token.sig # Sign(SECRET_KEY, token.alg, token.claims)
    \/ token.claims.exp < t
    \/ token.claims.sub = None

\* The one response of a refused token.
TokenRefused ==
    [status |-> 401, detail |-> "Could not validate credentials", challenge |-> TRUE,
     body |-> NoBody]

\* C11: every token that fails verification, whatever the reason (malformed,
\* wrong algorithm, bad signature, expired, no subject) and whatever the store
\* holds, gets one and the same response: 401 "Could not validate
\* credentials" with the Bearer challenge and no body; so any two of them get
\* identical responses.
C11_FailuresIndistinguishable ==
    (/\ response.op = "resolve"
     /\ response.request.token # NoToken
     /\ FailsVerification(response.request.token, response.request.at))
    => Visible(response) = TokenRefused

\* A token with the server's signature and no subject was refused while the
\* store held a record.
C11_Witness ==
    /\ response.op = "resolve"
    /\ Genuine(response.request.token)
    /\ response.request.token.claims.sub = None
    /\ response.request.token.claims.exp >= response.request.at
    /\ Len(users) > 0
    /\ Visible(response) = TokenRefused

\* A token with the server's signature past its expiry was refused.
C11_WitnessExpired ==
    /\ response.op = "resolve"
    /\ Genuine(response.request.token)
    /\ response.request.token.claims.sub # None
    /\ response.request.token.claims.exp < response.request.at
    /\ Visible(response) = TokenRefused

\* A token under another algorithm was refused.
C11_WitnessAlgorithm ==
    /\ response.op = "resolve"
    /\ response.request.token # Garbage
    /\ response.request.token # NoToken
    /\ response.request.token.alg # ALGORITHM
    /\ Visible(response) = TokenRefused

\* The response of a request whose subject's record is disabled.
InactiveUser ==
    [status |-> 400, detail |-> "Inactive user", challenge |-> FALSE, body |-> NoBody]

\* C12: the rejections come in a fixed order.  A token that fails
\* verification gets the 401 with the Bearer challenge whatever the record of
\* its subject is; a token that verifies and whose subject has no record gets
\* that same 401 with the challenge; a token that verifies and whose subject's
\* record is disabled gets 400 "Inactive user"; in none of the three is an
\* identity handed on: the response has no body and the request is over.
C12_RejectionPrecedence ==
    (/\ response.op = "resolve"
     /\ response.request.token # NoToken)
    => LET token == response.request.token
       IN  IF FailsVerification(token, response.request.at)
             THEN Visible(response) = TokenRefused /\ gate = Idle
           ELSE IF find_one(users, token.claims.sub) = NoDocument
             THEN Visible(response) = TokenRefused /\ gate = Idle
           ELSE find_one(users, token.claims.sub).disabled
                => Visible(response) = InactiveUser /\ gate = Idle

\* A token with the server's signature, not expired, whose subject has no
\* record was answered.
C12_Witness ==
    /\ response.op = "resolve"
    /\ Genuine(response.request.token)
    /\ ~FailsVerification(response.request.token, response.request.at)
    /\ find_one(users, response.request.token.claims.sub) = NoDocument
    /\ Visible(response) = TokenRefused

\* An expired token whose subject's record is disabled was answered 401.
C12_WitnessExpiredDisabled ==
    /\ response.op = "resolve"
    /\ Genuine(response.request.token)
    /\ response.request.token.claims.sub = JOHNDOE
    /\ response.request.token.claims.exp < response.request.at
    /\ find_one(users, JOHNDOE) # NoDocument
    /\ find_one(users, JOHNDOE).disabled
    /\ Visible(response) = TokenRefused

\* A token that verifies whose subject's record is disabled was answered 400.
C12_WitnessDisabled ==
    /\ response.op = "resolve"
    /\ response.request.token # NoToken
    /\ ~FailsVerification(response.request.token, response.request.at)
    /\ find_one(users, response.request.token.claims.sub) # NoDocument
    /\ find_one(users, response.request.token.claims.sub).disabled
    /\ Visible(response) = InactiveUser

(***************************************************************************)
(* Properties of the service with its posts endpoints.                     *)
(***************************************************************************)
\* What resolving a token comes to, from the token, the time it is decoded
\* at and the user store alone: refused, inactive, or the record's identity.
ResolveOutcome(token, t, coll) ==
    IF FailsVerification(token, t) THEN TokenRefused
    ELSE IF find_one(coll, token.claims.sub) = NoDocument THEN TokenRefused
    ELSE IF find_one(coll, token.claims.sub).disabled THEN InactiveUser
    ELSE [status |-> 200, detail |-> NoDetail, challenge |-> FALSE,
          body |-> UserOut(find_one(coll, token.claims.sub))]

\* A step of issuing a token or of resolving one.
TokenStep ==
    \/ response'.op \in {"login", "resolve"}
    \/ gate' # gate /\ gate.st # "handler"

\* C13: tokens are stateless.  A login and the resolving of a token write to
\* no store (users, their indexes, posts); and what resolving a token comes to
\* is determined by the token, the secret, the clock at its decoding and the
\* user store as read: whatever tokens were issued or resolved before, and
\* whether its subject has logged in again since, the answer is the same.
C13_Stateless ==
    [][/\ TokenStep => users' = users /\ indexes' = indexes /\ posts' = posts
       /\ (response'.op = "resolve" /\ response'.request.token # NoToken)
          => Visible(response') = ResolveOutcome(response'.request.token,
                                                 response'.request.at, users')
       /\ (gate.st = "lookup" /\ gate'.st = "handler")
          => /\ ResolveOutcome(gate.request.token, gate.request.at, users').status = 200
             /\ gate'.current_user = find_one(users', gate.request.token.claims.sub)
      ]_vars

\* A token was resolved to its identity after the client had been issued
\* another one.
C13_Witness ==
    /\ response.op = "resolve"
    /\ response.status = 200
    /\ wire # NoToken
    /\ response.request.token # wire

\* A step of an endpoint: a handler answered, or a request moved on.
EndpointStep ==
    \/ response'.op # "none"
    \/ regs' # regs
    \/ gate' # gate

\* C14: the user store only grows and no endpoint alters a record in it.
\* No step removes a record or changes anything of a record but its disabled
\* flag, and no step of an endpoint changes that either; login, the resolving
\* of a token, /users/me/ and the posts endpoints leave the user store as it
\* was; a register that succeeds appends exactly one record with all of its
\* fields, built from the request; a register that fails leaves the store
\* exactly as it was.
C14_UsersOnlyGrow ==
    [][/\ Len(users') >= Len(users)
       /\ \A k \in 1..Len(users) : [users'[k] EXCEPT !.disabled = users[k].disabled] = users[k]
       /\ EndpointStep => \A k \in 1..Len(users) : users'[k] = users[k]
       /\ (EndpointStep /\ ~(response'.op = "register" /\ response'.status = 200))
          => users' = users
       /\ (response'.op = "register" /\ response'.status = 200)
          => /\ Len(users') = Len(users) + 1
             /\ DOMAIN users'[Len(users')] = StoredFields
             /\ users'[Len(users')].username = response'.request.username
             /\ users'[Len(users')].email = response'.request.email
             /\ users'[Len(users')].full_name = response'.request.full_name
             /\ users'[Len(users')].hashed_password \in HashesOf(response'.request.password)
             /\ users'[Len(users')].disabled = FALSE
      ]_vars

\* A register was refused while the store held two records, one of them
\* disabled, and posts had been created.
C14_Witness ==
    /\ response.op = "register"
    /\ response.status = 400
    /\ Len(users) = 2
    /\ \E k \in 1..Len(users) : users[k].disabled
    /\ Len(posts) > 0

\* A register succeeded next to the seeded record.
C14_WitnessAdded ==
    /\ response.op = "register"
    /\ response.status = 200
    /\ Len(users) = 2

\* C15: a login is answered with a token exactly when the user name has a
\* record and the password verifies against its hash; the answer is then
\* {access_token, token_type: "bearer"} where the token carries the server's
\* signature, the username of that record as its subject and the time of the
\* login plus ACCESS_TOKEN_EXPIRE_MINUTES (30) as its expiry; otherwise no
\* token is in the answer.
C15_LoginIssuesToken ==
    response.op = "login"
    => LET user == find_one(users, response.request.username)
           authenticated == /\ user # NoDocument
                            /\ verify_password(response.request.password, user.hashed_password)
       IN  /\ response.status = 200 <=> authenticated
           /\ authenticated
              => /\ DOMAIN response.body = {"access_token", "token_type"}
                 /\ response.body.token_type = "bearer"
                 /\ Genuine(response.body.access_token)
                 /\ response.body.access_token.claims =
                        [sub |-> user.username, exp |-> now + ACCESS_TOKEN_EXPIRE_MINUTES]
           /\ ~authenticated => response.body = NoBody /\ response.status = 401

\* A login after the clock has advanced was answered with a token.
C15_Witness ==
    /\ response.op = "login"
    /\ response.status = 200
    /\ now > 0
    /\ response.body.access_token.claims.exp = now + 30

\* The request waiting in get_current_user reaches ResolvedIdentity in this
\* step: its handler is entered with the identity, or (read_users_me, which
\* awaits nothing) has returned it.
ResolvedIdentity ==
    \/ gate'.st = "handler" /\ gate'.request = gate.request
    \/ /\ gate' = Idle
       /\ response'.op = "resolve"
       /\ response'.status = 200
       /\ response'.request = gate.request

\* The request waiting in get_current_user is rejected in this step.
Rejected ==
    /\ gate' = Idle
    /\ response'.op = "resolve"
    /\ response'.status \in {400, 401}
    /\ response'.request = gate.request

\* A step in which the body of a protected endpoint's handler runs.
HandlerRuns ==
    \/ gate'.st = "handler" /\ gate' # gate
    \/ posts' # posts
    \/ response'.op \in {"create_post", "my_posts"}
    \/ response'.op = "resolve" /\ response'.status = 200

\* C16: a request to a protected endpoint that presents a token is decoded;
\* one that decodes waits for the store and eventually leaves that wait, and
\* leaves it in exactly one of ResolvedIdentity and Rejected.  The body of a
\* handler runs only in or after the step in which ResolvedIdentity was
\* reached for the same request, whose token verified and whose subject's
\* record exists and is not disabled; a rejected request (at decoding or
\* after the lookup) enters no handler and writes to no store.
C16_RequestStateMachine ==
    /\ [][/\ (gate.st = "lookup" /\ gate' # gate)
             => (ResolvedIdentity \/ Rejected) /\ ~(ResolvedIdentity /\ Rejected)
          /\ (gate'.st = "lookup" /\ gate' # gate)
             => /\ gate = Idle
                /\ gate'.request.token # NoToken
                /\ ~FailsVerification(gate'.request.token, gate'.request.at)
          /\ HandlerRuns
             => \/ /\ gate.st = "lookup"
                   /\ ResolvedIdentity
                   /\ ResolveOutcome(gate.request.token, gate.request.at, users).status = 200
                \/ /\ gate.st = "handler"
                   /\ gate' = Idle
                   /\ response'.request = gate.request
                   /\ gate.current_user.disabled = FALSE
          /\ (response'.op = "resolve" /\ response'.status # 200)
             => /\ gate'.st # "handler"
                /\ users' = users /\ indexes' = indexes /\ posts' = posts
         ]_vars
    /\ (gate.st = "lookup") ~> (gate.st # "lookup")

\* A post was created by a handler that ran after its request was resolved.
C16_Witness ==
    /\ response.op = "create_post"
    /\ response.status = 200
    /\ Len(posts) > 0
    /\ gate = Idle

\* A request to POST /posts/ was rejected after the lookup of its subject.
C16_WitnessRejected ==
    /\ response.op = "resolve"
    /\ response.status = 400
    /\ response.request.endpoint = "create_post"
    /\ gate = Idle

\* C17: every post in the store is owned by a user of the user store, and a
\* post is added only by the handler of a POST /posts/ request whose token was
\* resolved: the token carries the server's signature, its subject's record
\* was read from the store and was not disabled, and the owner_username of the
\* post added is the username of that record, whatever owner the body of the
\* request names; every other step leaves the posts as they were.
C17_PostOwnerIsResolvedIdentity ==
    /\ [](\A k \in 1..Len(posts) : find_one(users, posts[k].owner_username) # NoDocument)
    /\ [][/\ (gate'.st = "handler" /\ gate' # gate)
             => /\ Genuine(gate'.request.token)
                /\ gate'.current_user = find_one(users, gate'.request.token.claims.sub)
                /\ gate'.current_user # NoDocument
                /\ gate'.current_user.disabled = FALSE
          /\ posts' # posts
             => /\ gate.st = "handler"
                /\ gate.request.endpoint = "create_post"
                /\ Len(posts') = Len(posts) + 1
                /\ SubSeq(posts', 1, Len(posts)) = posts
                /\ posts'[Len(posts')].owner_username = gate.current_user.username
                /\ posts'[Len(posts')].owner_username = gate.request.token.claims.sub
                /\ response'.op = "create_post"
                /\ response'.body.owner_username = gate.current_user.username
         ]_vars

\* A post was created by a request whose body named another owner than the
\* subject of its token.
C17_Witness ==
    /\ response.op = "create_post"
    /\ response.request.payload.owner_username # None
    /\ response.request.payload.owner_username # response.request.token.claims.sub
    /\ Len(posts) > 0
    /\ posts[Len(posts)].owner_username = response.request.token.claims.sub

\* C18: login does not look at the disabled flag: a login whose user name has
\* a record and whose password verifies is answered 200 with a token, also
\* when that record is disabled.  Yet no protected endpoint accepts a token
\* whose subject's record is disabled when it is resolved: a request is
\* resolved (its handler entered, or /users/me/ answered 200) only in a step in
\* which the store holds a record of the token's subject that is not disabled.
C18_DisabledLoginButNoAccess ==
    /\ [](response.op = "login"
          => LET user == find_one(users, response.request.username)
             IN  (/\ user # NoDocument
                  /\ verify_password(response.request.password, user.hashed_password))
                 => /\ response.status = 200
                    /\ Genuine(response.body.access_token)
                    /\ response.body.access_token.claims.sub = user.username)
    /\ [][(/\ gate.st = "lookup"
           /\ \/ gate'.st = "handler"
              \/ response'.op = "resolve" /\ response'.status = 200)
          => /\ find_one(users, gate.request.token.claims.sub) # NoDocument
             /\ find_one(users, gate.request.token.claims.sub).disabled = FALSE
         ]_vars
    /\ []((\/ response.op \in {"create_post", "my_posts"}
            \/ (response.op = "resolve" /\ response.status = 200))
          => Genuine(response.request.token))

\* A login as a user whose record is disabled was answered with a token.
C18_Witness ==
    /\ response.op = "login"
    /\ response.status = 200
    /\ find_one(users, response.request.username) # NoDocument
    /\ find_one(users, response.request.username).disabled

\* A token with the server's signature was refused by POST /posts/ because
\* the record of its subject was disabled.
C18_WitnessRefused ==
    /\ response.op = "resolve"
    /\ response.status = 400
    /\ response.request.endpoint = "create_post"
    /\ Genuine(response.request.token)

\* C19: a token issued by a login never resolves to "no such user".  The
\* subject of the token the client was given has a record in the store, in
\* every state; every request that got past the decoding of its token finds
\* a record; and a token with the server's signature that has not expired is
\* answered by the gate with the identity of its subject's record or with
\* 400 "Inactive user", never with the 401.
C19_IssuedTokenFindsItsUser ==
    /\ wire # NoToken => find_one(users, wire.claims.sub) # NoDocument
    /\ gate.st = "lookup" => find_one(users, gate.username) # NoDocument
    /\ (/\ response.op = "resolve"
        /\ Genuine(response.request.token)
        /\ response.request.token.claims.exp >= response.request.at)
       => LET user == find_one(users, response.request.token.claims.sub)
          IN  /\ user # NoDocument
              /\ \/ Visible(response) = InactiveUser /\ user.disabled
                 \/ /\ response.status = 200
                    /\ response.body = UserOut(user)
                    /\ ~user.disabled

\* The token of a user who registered and logged in was resolved after a
\* further login and while the seeded user was disabled.
C19_Witness ==
    /\ response.op = "resolve"
    /\ Genuine(response.request.token)
    /\ response.request.token.claims.sub = ALICE
    /\ response.request.token.claims.exp >= response.request.at
    /\ response.status = 200
    /\ find_one(users, JOHNDOE).disabled

====
